---- MODULE Spec2Model ----
(***************************************************************************)
(* A model of app.py, the SAP enterprise-architect analysis pipeline:      *)
(* extract (text -> profile), run_agents, build_dot, make_fmea and         *)
(* mitigation_narrative, run by independent sessions whose steps           *)
(* interleave.  Text is a sequence of one-character strings, so keyword    *)
(* matching is real substring search and the users hint is a real scan for *)
(* digit runs.                                                             *)
(***************************************************************************)
EXTENDS Integers, Sequences, FiniteSets, TLC

VARIABLES MODULE_KEYWORDS, EXT_SYSTEMS, AGENTS,
          text, analysis, findings, dot, fmea, narrative, pc

vars == <<MODULE_KEYWORDS, EXT_SYSTEMS, AGENTS,
          text, analysis, findings, dot, fmea, narrative, pc>>

catalogs == <<MODULE_KEYWORDS, EXT_SYSTEMS, AGENTS>>

(***************************************************************************)
(* Characters and strings                                                  *)
(***************************************************************************)
UpperChars ==
    <<"A", "B", "C", "D", "E", "F", "G", "H", "I", "J", "K", "L", "M", "N", "O", "P", "Q", "R", "S", "T", "U", "V", "W", "X", "Y", "Z">>

LowerChars ==
    <<"a", "b", "c", "d", "e", "f", "g", "h", "i", "j", "k", "l", "m", "n", "o", "p", "q", "r", "s", "t", "u", "v", "w", "x", "y", "z">>

Digits ==
    <<"0", "1", "2", "3", "4", "5", "6", "7", "8", "9">>

\* str.lower() on one character: ASCII upper case maps to lower case,
\* everything else is kept.
LowerChar(c) ==
    IF \E i \in 1..Len(UpperChars) : UpperChars[i] = c
    THEN LowerChars[CHOOSE i \in 1..Len(UpperChars) : UpperChars[i] = c]
    ELSE c

\* str.lower()
Lower(s) == [i \in 1..Len(s) |-> LowerChar(s[i])]

\* str.upper() on one character.
UpperChar(c) ==
    IF \E i \in 1..Len(LowerChars) : LowerChars[i] = c
    THEN UpperChars[CHOOSE i \in 1..Len(LowerChars) : LowerChars[i] = c]
    ELSE c

\* str.upper()
Upper(s) == [i \in 1..Len(s) |-> UpperChar(s[i])]

\* Python's `kw in t` on strings: kw occurs in t as a contiguous substring.
Contains(kw, t) ==
    \E i \in 1..(Len(t) - Len(kw) + 1) :
        \A j \in 1..Len(kw) : t[i + j - 1] = kw[j]

\* any(kw in t for kw in kws)
AnyIn(kws, t) == \E k \in 1..Len(kws) : Contains(kws[k], t)

\* x in list
Member(x, s) == \E i \in 1..Len(s) : s[i] = x

\* The absent text (None), which `text or ""` turns into the empty string.
None == <<"None">>

\* (text or "")
OrEmpty(txt) == IF txt = None THEN <<>> ELSE txt


(***************************************************************************)
(* The keyword catalogs, in dictionary (insertion) order                   *)
(***************************************************************************)

ModuleKeywordsCatalog ==
    <<
       <<"FI", <<<<"f", "i", "n", "a", "n", "c", "e">>, <<"l", "e", "d", "g", "e", "r">>, <<"i", "n", "v", "o", "i", "c", "e">>, <<"t", "a", "x">>, <<"c", "l", "o", "s", "i", "n", "g">>>>>>,
       <<"MM", <<<<"p", "r", "o", "c", "u", "r", "e">>, <<"p", "r", "o", "c", "u", "r", "e", "m", "e", "n", "t">>, <<"p", "u", "r", "c", "h", "a", "s", "e">>, <<"s", "u", "p", "p", "l", "i", "e", "r">>, <<"i", "n", "v", "e", "n", "t", "o", "r", "y">>>>>>,
       <<"SD", <<<<"s", "a", "l", "e", "s">>, <<"o", "r", "d", "e", "r">>, <<"c", "u", "s", "t", "o", "m", "e", "r">>, <<"d", "e", "l", "i", "v", "e", "r", "y">>, <<"b", "i", "l", "l", "i", "n", "g">>>>>>,
       <<"PP", <<<<"p", "r", "o", "d", "u", "c", "t", "i", "o", "n">>, <<"s", "h", "o", "p">>, <<"m", "r", "p">>, <<"b", "o", "m">>, <<"r", "o", "u", "t", "i", "n", "g">>>>>>,
       <<"QM", <<<<"q", "u", "a", "l", "i", "t", "y">>, <<"i", "n", "s", "p", "e", "c", "t", "i", "o", "n">>, <<"d", "e", "f", "e", "c", "t">>>>>>,
       <<"PM", <<<<"m", "a", "i", "n", "t", "e", "n", "a", "n", "c", "e">>, <<"a", "s", "s", "e", "t">>, <<"b", "r", "e", "a", "k", "d", "o", "w", "n">>>>>>,
       <<"EWM", <<<<"w", "a", "r", "e", "h", "o", "u", "s", "e">>, <<"w", "m", "s">>, <<"p", "i", "c", "k", "i", "n", "g">>, <<"p", "u", "t", "a", "w", "a", "y">>>>>>,
       <<"BW/4HANA", <<<<"a", "n", "a", "l", "y", "t", "i", "c", "s">>, <<"b", "i">>, <<"r", "e", "p", "o", "r", "t">>, <<"k", "p", "i">>, <<"b", "w", "/", "4", "h", "a", "n", "a">>>>>>,
       <<"Fiori", <<<<"f", "i", "o", "r", "i">>, <<"m", "o", "b", "i", "l", "e">>, <<"u", "i">>>>>>,
       <<"IBP", <<<<"f", "o", "r", "e", "c", "a", "s", "t">>, <<"p", "l", "a", "n", "n", "i", "n", "g">>, <<"i", "b", "p">>>>>>,
       <<"TM", <<<<"f", "r", "e", "i", "g", "h", "t">>, <<"c", "a", "r", "r", "i", "e", "r">>, <<"t", "r", "a", "n", "s", "p", "o", "r", "t">>>>>>,
       <<"MDG", <<<<"m", "a", "s", "t", "e", "r", " ", "d", "a", "t", "a">>, <<"g", "o", "v", "e", "r", "n", "a", "n", "c", "e">>, <<"m", "d", "g">>>>>>,
       <<"S/4HANA", <<<<"s", "/", "4", "h", "a", "n", "a">>>>>>
    >>

ExtSystemsCatalog ==
    <<
       <<"Salesforce CRM", <<<<"s", "a", "l", "e", "s", "f", "o", "r", "c", "e">>>>>>,
       <<"Oracle DB (Legacy)", <<<<"o", "r", "a", "c", "l", "e">>>>>>,
       <<"3PL / Logistics", <<<<"3", "p", "l">>, <<"l", "o", "g", "i", "s", "t", "i", "c", "s", " ", "p", "r", "o", "v", "i", "d", "e", "r">>>>>>,
       <<"E-commerce", <<<<"s", "h", "o", "p", "i", "f", "y">>, <<"m", "a", "g", "e", "n", "t", "o">>, <<"e", "-", "c", "o", "m", "m", "e", "r", "c", "e">>, <<"e", "c", "o", "m", "m", "e", "r", "c", "e">>>>>>,
       <<"IoT Gateway", <<<<"i", "o", "t">>, <<"s", "e", "n", "s", "o", "r">>, <<"p", "l", "c">>>>>>,
       <<"POS", <<<<"p", "o", "s">>>>>>,
       <<"EHR", <<<<"e", "h", "r">>, <<"h", "l", "7">>, <<"f", "h", "i", "r">>>>>>
    >>

\* The order Python's sorted() gives the names the program handles (string
\* comparison by code point: "FI" < "Fiori", "S/4HANA" < "SD").
StrOrder ==
    <<"3PL / Logistics",
      "AWS Cloud",
      "Azure Cloud",
      "BW/4HANA",
      "E-commerce",
      "EHR",
      "EWM",
      "FI",
      "Fiori",
      "Hybrid",
      "IBP",
      "IoT Gateway",
      "MDG",
      "MM",
      "On-Prem",
      "Oracle DB (Legacy)",
      "PM",
      "POS",
      "PP",
      "QM",
      "S/4HANA",
      "S/4HANA Cloud",
      "SD",
      "Salesforce CRM",
      "TM",
      "Users">>

\* sorted(S) for a set S of those names
sorted(S) == SelectSeq(StrOrder, LAMBDA n : n \in S)

(***************************************************************************)
(* extract: text -> profile                                                *)
(***************************************************************************)
DefaultHosting == "S/4HANA Cloud"

OnPremKw == <<"o", "n", "-", "p", "r", "e", "m">>
OnPremSpaceKw == <<"o", "n", " ", "p", "r", "e", "m">>
AzureKw == <<"a", "z", "u", "r", "e">>
AwsKw == <<"a", "w", "s">>
HybridKw == <<"h", "y", "b", "r", "i", "d">>

\* The words the compliance loop scans, in loop order.
ComplianceWords ==
    << <<"g", "d", "p", "r">>,
       <<"h", "i", "p", "a", "a">>,
       <<"p", "c", "i", "-", "d", "s", "s">>,
       <<"i", "s", "o">> >>

DefaultUsers == 1000

\* The set of catalog tags with at least one keyword in t.
HitTags(t) ==
    {MODULE_KEYWORDS[i][1] : i \in {k \in 1..Len(MODULE_KEYWORDS) : AnyIn(MODULE_KEYWORDS[k][2], t)}}

\* The anchor rule with the anchors added in the empty case only.
WithAnchorsIfEmpty(modules) ==
    IF modules # {}
    THEN modules
    ELSE modules \cup {"S/4HANA", "Fiori"}

\* modules after the anchor rule (both branches add the two anchors).
WithAnchors(modules) ==
    IF modules # {}
    THEN (modules \cup {"S/4HANA"}) \cup {"Fiori"}
    ELSE modules \cup {"S/4HANA", "Fiori"}

\* [name for name, kws in EXT_SYSTEMS.items() if any(kw in t for kw in kws)]
Externals(t) ==
    LET matched == SelectSeq(EXT_SYSTEMS, LAMBDA e : AnyIn(e[2], t))
    IN  [i \in 1..Len(matched) |-> matched[i][1]]

\* The four hosting tests as an if/elif chain: the first match decides.
HostingFirstMatch(t) ==
    IF Contains(OnPremKw, t) \/ Contains(OnPremSpaceKw, t) THEN "On-Prem"
    ELSE IF Contains(AzureKw, t) THEN "Azure Cloud"
    ELSE IF Contains(AwsKw, t) THEN "AWS Cloud"
    ELSE IF Contains(HybridKw, t) THEN "Hybrid"
    ELSE DefaultHosting

\* The four hosting tests, each overwriting the value the previous ones left.
Hosting(t) ==
    LET h0 == DefaultHosting
        h1 == IF Contains(OnPremKw, t) \/ Contains(OnPremSpaceKw, t) THEN "On-Prem" ELSE h0
        h2 == IF Contains(AzureKw, t) THEN "Azure Cloud" ELSE h1
        h3 == IF Contains(AwsKw, t) THEN "AWS Cloud" ELSE h2
        h4 == IF Contains(HybridKw, t) THEN "Hybrid" ELSE h3
    IN  h4

\* The compliance loop: word.upper() appended for each word found in t.
Compliance(t) ==
    LET found == SelectSeq(ComplianceWords, LAMBDA w : Contains(w, t))
    IN  [i \in 1..Len(found) |-> Upper(found[i])]

\* \d
IsDigit(c) == \E i \in 1..Len(Digits) : Digits[i] = c

\* \w : letters, digits and the underscore
IsWordChar(c) ==
    \/ IsDigit(c)
    \/ \E i \in 1..Len(LowerChars) : LowerChars[i] = c \/ UpperChars[i] = c
    \/ c = "_"

\* \b at the gap before position p (1..Len(t)+1): exactly one side is a word
\* character, the ends of the string counting as non-word.
WordBoundary(t, p) ==
    LET before == p > 1 /\ IsWordChar(t[p - 1])
        after == p <= Len(t) /\ IsWordChar(t[p])
    IN  before # after

\* \b(\d{3,6})\b matches at position p with k digits.
MatchAt(t, p, k) ==
    /\ p + k - 1 <= Len(t)
    /\ WordBoundary(t, p)
    /\ \A j \in p..(p + k - 1) : IsDigit(t[j])
    /\ WordBoundary(t, p + k)

\* re.findall from position p: the matches left to right, none overlapping;
\* at one position the quantifier tries 6 digits first, then fewer.
RECURSIVE findall(_, _)
findall(t, p) ==
    IF p > Len(t) THEN <<>>
    ELSE LET ks == {k \in 3..6 : MatchAt(t, p, k)}
         IN  IF ks = {} THEN findall(t, p + 1)
             ELSE LET k == CHOOSE x \in ks : \A y \in ks : y <= x
                  IN  <<SubSeq(t, p, p + k - 1)>> \o findall(t, p + k)

\* The value of one decimal digit.
DigitValue(c) == (CHOOSE i \in 1..Len(Digits) : Digits[i] = c) - 1

\* int(s) for a string of decimal digits
RECURSIVE int(_)
int(s) ==
    IF s = <<>> THEN 0
    ELSE 10 * int(SubSeq(s, 1, Len(s) - 1)) + DigitValue(s[Len(s)])

extract(txt) ==
    LET t == Lower(OrEmpty(txt))
        modules == WithAnchors(HitTags(t))
        nums == findall(t, 1)
    IN  [modules |-> sorted(modules),
         external |-> Externals(t),
         hosting |-> Hosting(t),
         compliance |-> Compliance(t),
         users |-> IF nums # <<>> THEN int(nums[1]) ELSE DefaultUsers]

(***************************************************************************)
(* run_agents: the ten rules, in declaration order                         *)
(***************************************************************************)
AgentsCatalog ==
    <<"Requirements Analyst", "Process Mapper", "Module Recommender",
      "Integration Planner", "Security Architect", "Performance Engineer",
      "Data Architect", "DR & Resilience", "Testing Lead", "Change Manager">>

\* The finding of the rule named `name` on profile a: the template's fixed
\* text, with the profile data it embeds (a joined list as the list).
Rule(name, a) ==
    CASE name = "Requirements Analyst" ->
            <<"Scope confirmed; clarify volumes, SLAs, and localization packs.">>
      [] name = "Process Mapper" ->
            <<"Map O2C (SD), P2P (MM/Ariba), RtR (FI), Mfg (PP/QM/PM) as applicable.">>
      [] name = "Module Recommender" ->
            <<"Active modules: ", a.modules>>
      [] name = "Integration Planner" ->
            IF a.external # <<>>
            THEN <<"Integrations: ", a.external>>
            ELSE <<"Integrations: ", <<"Standard SAP APIs only">>>>
      [] name = "Security Architect" ->
            IF a.compliance # <<>>
            THEN <<"RBAC, SoD, encryption in transit/at rest; audit trails for ", a.compliance>>
            ELSE <<"RBAC, SoD, encryption; enable audit trails.">>
      [] name = "Performance Engineer" ->
            <<"Design for ~", a.users, " users; cache OData; batch heavy jobs.">>
      [] name = "Data Architect" ->
            <<"Use BW/4HANA for KPIs; MDG for golden records if multiple sources.">>
      [] name = "DR & Resilience" ->
            <<"Cross-region DR; RPO <= 15m, RTO <= 2h; frequent backups.">>
      [] name = "Testing Lead" ->
            <<"Automate regression for O2C/P2P/RtR + smoke performance tests.">>
      [] name = "Change Manager" ->
            <<"Fit-to-Standard; phased releases; training & hypercare.">>

run_agents(a) ==
    [i \in 1..Len(AGENTS) |-> [agent |-> AGENTS[i], finding |-> Rule(AGENTS[i], a)]]

(***************************************************************************)
(* build_dot: the lines of the DOT text                                    *)
(***************************************************************************)
\* The edge list without the test that skips the anchors.
EdgesAllModules(a) ==
    <<<<"Users", "Fiori">>, <<"Fiori", "S/4HANA">>, <<"S/4HANA", a.hosting>>>>
    \o [i \in 1..Len(a.modules) |-> <<a.modules[i], "S/4HANA">>]
    \o [i \in 1..Len(a.external) |-> <<a.external[i], "S/4HANA">>]

\* The edge list, in construction order.
Edges(a) ==
    LET fixed == <<<<"Users", "Fiori">>, <<"Fiori", "S/4HANA">>, <<"S/4HANA", a.hosting>>>>
        mods == SelectSeq(a.modules, LAMBDA m : m \notin {"S/4HANA", "Fiori"})
    IN  fixed
        \o [i \in 1..Len(mods) |-> <<mods[i], "S/4HANA">>]
        \o [i \in 1..Len(a.external) |-> <<a.external[i], "S/4HANA">>]

\* {n for a, b in edges for n in (a, b)}
Nodes(edges) == {edges[i][j] : i \in 1..Len(edges), j \in 1..2}

build_dot(a) ==
    LET edges == Edges(a)
        nodes == sorted(Nodes(edges))
    IN  <<<<"digraph G {">>, <<"rankdir=LR;">>, <<"node [shape=box, style=rounded];">>>>
        \o [i \in 1..Len(nodes) |-> <<"node", nodes[i]>>]
        \o [i \in 1..Len(edges) |-> <<"edge", edges[i][1], edges[i][2]>>]
        \o <<<<"}">>>>

(***************************************************************************)
(* make_fmea: the six failure modes, scored and ranked                     *)
(***************************************************************************)
\* The hosting value as a string of characters, for the `"Cloud" in` test.
Chars(h) ==
    CASE h = "S/4HANA Cloud" -> <<"S", "/", "4", "H", "A", "N", "A", " ", "C", "l", "o", "u", "d">>
      [] h = "On-Prem" -> <<"O", "n", "-", "P", "r", "e", "m">>
      [] h = "Azure Cloud" -> <<"A", "z", "u", "r", "e", " ", "C", "l", "o", "u", "d">>
      [] h = "AWS Cloud" -> <<"A", "W", "S", " ", "C", "l", "o", "u", "d">>
      [] h = "Hybrid" -> <<"H", "y", "b", "r", "i", "d">>

\* add with the detection factor left out of the product.
add_without_detection(mode, effect, sev, occ, det, actions) ==
    [FailureMode |-> mode, Effect |-> effect,
     Severity |-> sev, Occurrence |-> occ, Detection |-> det,
     RPN |-> sev * occ,
     Mitigations |-> actions]

add(mode, effect, sev, occ, det, actions) ==
    [FailureMode |-> mode, Effect |-> effect,
     Severity |-> sev, Occurrence |-> occ, Detection |-> det,
     RPN |-> sev * occ * det,
     Mitigations |-> actions]

\* The integration heuristic with the threshold one too high.
many_integrations_above_two(a) == Len(a.external) > 2

\* The heuristics of lines 175-177.
many_integrations(a) == Len(a.external) >= 2

cloud(a) ==
    \/ Contains(<<"C", "l", "o", "u", "d">>, Chars(a.hosting))
    \/ a.hosting \in {"AWS Cloud", "Azure Cloud"}

hybrid(a) == a.hosting = "Hybrid"

\* The six add(...) calls, in the order the code makes them.
Items(a) ==
    LET users == a.users
    IN  << add("Integration failure",
               "Orders/shipments stuck; revenue impact",
               9, 5 + (IF many_integrations(a) THEN 1 ELSE 0), 5,
               <<"Use standard IDoc/OData where possible",
                 "Contract SLAs with external systems",
                 "Retry & dead-letter queues; circuit breakers",
                 "Observability on interfaces (alerts, traces)">>),
           add("Data migration error",
               "Inaccurate financials or inventory",
               8, 4, 6,
               <<"Reconciliation runs & parity reports",
                 "Master-data validation rules (MDG-style)",
                 "Dry runs + cutover checklists">>),
           add("Security breach",
               "PII loss / compliance fines",
               10, 3, 4,
               <<"RBAC & SoD; MFA/SSO",
                 "Field-level encryption & masking",
                 "Centralized audit logs; log retention">>),
           add("Performance degradation",
               "Slow UI and batch overruns",
               7, 4 + (IF users > 2000 THEN 1 ELSE 0), 5,
               <<"OData caching & CDS view tuning",
                 "Archive/cold-store aged data",
                 "Background jobs leveled; capacity tests">>),
           add("Availability / DR gap",
               "Extended outage",
               9, 3 + (IF cloud(a) \/ hybrid(a) THEN 1 ELSE 0), 4,
               <<"Automated backups; tested restore",
                 "Cross-region replicas; failover drills",
                 "RPO/RTO in runbooks">>),
           add("Master data quality issues",
               "Downstream errors across modules",
               8, 5, 6,
               <<"Data ownership & stewardship",
                 "Duplicate prevention, validations",
                 "Golden-record governance">>) >>

\* Insert for a sort without reverse=True: ascending.
InsertAscending(x, s) ==
    LET ahead == {i \in 1..Len(s) : s[i].RPN <= x.RPN}
        n == Cardinality(ahead)
    IN  SubSeq(s, 1, n) \o <<x>> \o SubSeq(s, n + 1, Len(s))

\* x put into a list already sorted by RPN descending, behind every entry
\* whose RPN is at least its own.
Insert(x, s) ==
    LET ahead == {i \in 1..Len(s) : s[i].RPN >= x.RPN}
        n == Cardinality(ahead)
    IN  SubSeq(s, 1, n) \o <<x>> \o SubSeq(s, n + 1, Len(s))

\* items.sort(key=RPN, reverse=True): descending, equal keys keeping the
\* order they had.
RECURSIVE SortByRpn(_)
SortByRpn(items) ==
    IF items = <<>> THEN <<>>
    ELSE Insert(items[Len(items)], SortByRpn(SubSeq(items, 1, Len(items) - 1)))

make_fmea(a) == SortByRpn(Items(a))

(***************************************************************************)
(* mitigation_narrative: the lines of the text                             *)
(***************************************************************************)
Fallback == "- No high risks detected beyond standard good practices."

\* The if/elif chain: the block of a failure mode, none for an unknown mode.
Block(mode) ==
    CASE mode = "Integration failure" -> <<"- **Integration failure:**">>
      [] mode = "Data migration error" -> <<"- **Data migration error:**">>
      [] mode = "Security breach" -> <<"- **Security breach:**">>
      [] mode = "Availability / DR gap" -> <<"- **Availability/DR:**">>
      [] mode = "Performance degradation" -> <<"- **Performance:**">>
      [] mode = "Master data quality issues" -> <<"- **Master data quality:**">>
      [] OTHER -> <<>>

\* fmea_items[:3]
Top3(items) == SubSeq(items, 1, IF Len(items) < 3 THEN Len(items) ELSE 3)

\* fmea_items[:4]
Top4(items) == SubSeq(items, 1, IF Len(items) < 4 THEN Len(items) ELSE 4)

RECURSIVE Bullets(_)
Bullets(rows) ==
    IF rows = <<>> THEN <<>>
    ELSE Block(rows[1].FailureMode) \o Bullets(Tail(rows))

Extra(a) ==
    (IF Member(<<"G", "D", "P", "R">>, a.compliance) THEN <<"- **GDPR:**">> ELSE <<>>)
    \o (IF Member(<<"H", "I", "P", "A", "A">>, a.compliance) THEN <<"- **HIPAA:**">> ELSE <<>>)

\* The narrative with the compliance blocks tied to the Security-breach row
\* being among the first four.
mitigation_narrative_extras_with_security(fmea_items, a) ==
    LET top == Top4(fmea_items)
        lines == Bullets(top)
                 \o (IF \E i \in 1..Len(top) : top[i].FailureMode = "Security breach"
                     THEN Extra(a) ELSE <<>>)
    IN  IF lines # <<>> THEN lines ELSE <<Fallback>>

mitigation_narrative(fmea_items, a) ==
    LET lines == Bullets(Top4(fmea_items)) \o Extra(a)
    IN  IF lines # <<>> THEN lines ELSE <<Fallback>>

(***************************************************************************)
(* Inputs                                                                  *)
(***************************************************************************)
Sessions == {1, 2}

\* The longest input text, in phrases of ChunkPool.
MaxChunks == 2

\* The longest input text of two concurrent sessions, in phrases of ConcPool.
MaxConcChunks == 1

\* The most external systems, and the most compliance tags, of a profile
\* handed to make_fmea directly.
MaxExternal == 2
MaxCompliance == 2

\* Phrases the input texts are built from: hosting keywords in both cases,
\* separators, digit runs, module and external-system keywords.
ChunkPool ==
    {<<"H", "y", "b", "r", "i", "d">>,
     <<"o", "n", "-", "p", "r", "e", "m">>,
     <<"o", "n", " ", "p", "r", "e", "m">>,
     <<"a", "z", "u", "r", "e">>,
     <<"A", "W", "S">>,
     <<" ">>,
     <<"0", "0", "0">>,
     <<"2", "5", "0", "0">>,
     <<"1", "2">>,
     <<"f", "i", "n", "a", "n", "c", "e">>,
     <<"s", "h", "o", "p", "i", "f", "y">>,
     <<"s", "a", "l", "e", "s", "f", "o", "r", "c", "e">>,
     <<"p", "o", "s", " ", "i", "o", "t">>,
     <<"g", "d", "p", "r">>,
     <<"_">>}

ConcPool ==
    {<<"A", "W", "S", " ", "2", "5", "0", "0">>,
     <<"h", "y", "b", "r", "i", "d", " ", "g", "d", "p", "r">>,
     <<"p", "o", "s", " ", "i", "o", "t">>,
     <<"f", "i", "n", "a", "n", "c", "e">>}

\* The texts of at most n phrases of pool, concatenated with nothing between.
RECURSIVE TextsUpTo(_, _)
TextsUpTo(pool, n) ==
    IF n = 0 THEN {<<>>}
    ELSE LET shorter == TextsUpTo(pool, n - 1)
         IN  shorter \cup {s \o c : s \in shorter, c \in pool}

Texts == TextsUpTo(ChunkPool, MaxChunks) \cup {None}

ConcTexts == TextsUpTo(ConcPool, MaxConcChunks)

\* The names of the external systems, in catalog order.
ExtNames == [i \in 1..Len(ExtSystemsCatalog) |-> ExtSystemsCatalog[i][1]]

\* The sublists of s (order kept) of at most n elements.
SubLists(s, n) ==
    {SelectSeq([i \in 1..Len(s) |-> <<i, s[i]>>], LAMBDA e : e[1] \in I) :
        I \in {J \in SUBSET (1..Len(s)) : Cardinality(J) <= n}}

Second(pairs) == [i \in 1..Len(pairs) |-> pairs[i][2]]

HostingValues == {"S/4HANA Cloud", "On-Prem", "Azure Cloud", "AWS Cloud", "Hybrid"}

\* User counts around the threshold of the performance rule, with the
\* default, the least (a token of zeros) and the greatest (six nines).
ProfileUsers == {0, 1000, 2000, 2001, 999999}

\* Profiles extract can return: sorted modules with both anchors, externals
\* and compliance tags in catalog order, one of the five hosting values.  A
\* text naming Salesforce contains "sales", so SD comes with Salesforce CRM.
Profiles ==
    {p \in [modules : {sorted(WithAnchors(S)) : S \in SUBSET {"SD"}},
            external : {Second(l) : l \in SubLists(ExtNames, MaxExternal)},
            hosting : HostingValues,
            compliance : {Second(l) : l \in SubLists([i \in 1..Len(ComplianceWords) |-> Upper(ComplianceWords[i])], MaxCompliance)},
            users : ProfileUsers] :
        Member("Salesforce CRM", p.external) => Member("SD", p.modules)}

(***************************************************************************)
(* Sessions: each runs the pipeline of lines 316-357 on its own text       *)
(***************************************************************************)
Unbound == <<>>

InitCatalogs ==
    /\ MODULE_KEYWORDS = ModuleKeywordsCatalog
    /\ EXT_SYSTEMS = ExtSystemsCatalog
    /\ AGENTS = AgentsCatalog

InitResults ==
    /\ findings = [r \in Sessions |-> Unbound]
    /\ dot = [r \in Sessions |-> Unbound]
    /\ fmea = [r \in Sessions |-> Unbound]
    /\ narrative = [r \in Sessions |-> Unbound]

\* Two sessions whose run button was pressed, each with its own text.
Init ==
    /\ InitCatalogs
    /\ text \in [Sessions -> ConcTexts]
    /\ analysis = [r \in Sessions |-> Unbound]
    /\ InitResults
    /\ pc = [r \in Sessions |-> "extract"]

\* One session with any text; the other's run button is not pressed.
InitExtract ==
    /\ InitCatalogs
    /\ \E txt \in Texts : text = [r \in Sessions |-> IF r = 1 THEN txt ELSE <<>>]
    /\ analysis = [r \in Sessions |-> Unbound]
    /\ InitResults
    /\ pc = [r \in Sessions |-> IF r = 1 THEN "extract" ELSE "idle"]

\* One session whose profile is given: the functions after extract applied to
\* any profile.
InitProfile ==
    /\ InitCatalogs
    /\ text = [r \in Sessions |-> <<>>]
    /\ \E p \in Profiles : analysis = [r \in Sessions |-> IF r = 1 THEN p ELSE Unbound]
    /\ InitResults
    /\ pc = [r \in Sessions |-> IF r = 1 THEN "run_agents" ELSE "idle"]

\* analysis = extract(requirements)
Extract(r) ==
    /\ pc[r] = "extract"
    /\ analysis' = [analysis EXCEPT ![r] = extract(text[r])]
    /\ pc' = [pc EXCEPT ![r] = "run_agents"]
    /\ UNCHANGED <<catalogs, text, findings, dot, fmea, narrative>>

\* findings = run_agents(analysis)
RunAgents(r) ==
    /\ pc[r] = "run_agents"
    /\ findings' = [findings EXCEPT ![r] = run_agents(analysis[r])]
    /\ pc' = [pc EXCEPT ![r] = "build_dot"]
    /\ UNCHANGED <<catalogs, text, analysis, dot, fmea, narrative>>

\* dot = build_dot(analysis)
BuildDot(r) ==
    /\ pc[r] = "build_dot"
    /\ dot' = [dot EXCEPT ![r] = build_dot(analysis[r])]
    /\ pc' = [pc EXCEPT ![r] = "make_fmea"]
    /\ UNCHANGED <<catalogs, text, analysis, findings, fmea, narrative>>

\* make_fmea with items a module-level list: every session sees the register
\* the last call built.
MakeFmeaSharedItems(r) ==
    /\ pc[r] = "make_fmea"
    /\ fmea' = [q \in Sessions |-> make_fmea(analysis[r])]
    /\ pc' = [pc EXCEPT ![r] = "mitigation"]
    /\ UNCHANGED <<catalogs, text, analysis, findings, dot, narrative>>

\* fmea = make_fmea(analysis): items is a list of this call alone.
MakeFmea(r) ==
    /\ pc[r] = "make_fmea"
    /\ fmea' = [fmea EXCEPT ![r] = make_fmea(analysis[r])]
    /\ pc' = [pc EXCEPT ![r] = "mitigation"]
    /\ UNCHANGED <<catalogs, text, analysis, findings, dot, narrative>>

\* st.markdown(mitigation_narrative(fmea, analysis))
Mitigation(r) ==
    /\ pc[r] = "mitigation"
    /\ narrative' = [narrative EXCEPT ![r] = mitigation_narrative(fmea[r], analysis[r])]
    /\ pc' = [pc EXCEPT ![r] = "done"]
    /\ UNCHANGED <<catalogs, text, analysis, findings, dot, fmea>>

Next ==
    \E r \in Sessions :
        \/ Extract(r)
        \/ RunAgents(r)
        \/ BuildDot(r)
        \/ MakeFmea(r)
        \/ Mitigation(r)

NextProfile ==
    \E r \in Sessions :
        \/ RunAgents(r)
        \/ BuildDot(r)
        \/ MakeFmea(r)
        \/ Mitigation(r)

Spec == Init /\ [][Next]_vars

SpecExtract == InitExtract /\ [][Next]_vars

SpecProfile == InitProfile /\ [][NextProfile]_vars

(***************************************************************************)
(* Properties                                                              *)
(***************************************************************************)
\* The session has its profile.
HasProfile(r) == pc[r] \in {"run_agents", "build_dot", "make_fmea", "mitigation", "done"}

HasDot(r) == pc[r] \in {"make_fmea", "mitigation", "done"}

HasFmea(r) == pc[r] \in {"mitigation", "done"}

HasNarrative(r) == pc[r] = "done"

\* The text of session r as extract sees it.
Lowered(r) == Lower(OrEmpty(text[r]))

\* The elements of a list.
Range(s) == {s[i] : i \in 1..Len(s)}

HasOnPrem(t) == Contains(OnPremKw, t) \/ Contains(OnPremSpaceKw, t)

\* C1: hosting is Hybrid whenever the hybrid keyword is in the text;
\* otherwise AWS Cloud whenever aws is; otherwise Azure Cloud whenever azure
\* is; otherwise On-Prem whenever an on-prem keyword is; otherwise the default.
C1_HostingLastMatchWins ==
    \A r \in Sessions :
        HasProfile(r) =>
            analysis[r].hosting =
                (IF Contains(HybridKw, Lowered(r)) THEN "Hybrid"
                 ELSE IF Contains(AwsKw, Lowered(r)) THEN "AWS Cloud"
                 ELSE IF Contains(AzureKw, Lowered(r)) THEN "Azure Cloud"
                 ELSE IF HasOnPrem(Lowered(r)) THEN "On-Prem"
                 ELSE "S/4HANA Cloud")

\* A text with an on-prem and the hybrid keyword, or with azure and aws, has
\* been classified.
C1_Witness ==
    \E r \in Sessions :
        /\ HasProfile(r)
        /\ \/ HasOnPrem(Lowered(r)) /\ Contains(HybridKw, Lowered(r))
              /\ analysis[r].hosting = "Hybrid"
           \/ Contains(AzureKw, Lowered(r)) /\ Contains(AwsKw, Lowered(r))
              /\ analysis[r].hosting = "AWS Cloud"

\* The tags of the catalog whose keywords the text hits.
TagsHit(t) ==
    {ModuleKeywordsCatalog[i][1] : i \in {k \in 1..Len(ModuleKeywordsCatalog) :
        \E j \in 1..Len(ModuleKeywordsCatalog[k][2]) : Contains(ModuleKeywordsCatalog[k][2][j], t)}}

\* C2: modules always holds both anchor tags; with no module keyword hit it
\* is exactly the two anchors, otherwise the hit tags plus the two anchors and
\* nothing else (each tag once).
C2_ModulesAnchored ==
    \A r \in Sessions :
        HasProfile(r) =>
            LET mods == Range(analysis[r].modules)
                hit == TagsHit(Lowered(r))
            IN  /\ {"S/4HANA", "Fiori"} \subseteq mods
                /\ hit = {} => mods = {"S/4HANA", "Fiori"}
                /\ hit # {} => mods = hit \cup {"S/4HANA", "Fiori"}
                /\ Cardinality(mods) = Len(analysis[r].modules)

\* A text that hits a business tag and neither anchor has been extracted.
C2_Witness ==
    \E r \in Sessions :
        /\ HasProfile(r)
        /\ TagsHit(Lowered(r)) # {}
        /\ TagsHit(Lowered(r)) \cap {"S/4HANA", "Fiori"} = {}
        /\ "Fiori" \in Range(analysis[r].modules)

\* A standalone numeric token of 3 to 6 digits at positions i..j of t: digits
\* only, with no letter, digit or underscore next to it on either side.
IsToken(t, i, j) ==
    /\ 1 <= i /\ j <= Len(t)
    /\ j - i + 1 >= 3 /\ j - i + 1 <= 6
    /\ \A k \in i..j : IsDigit(t[k])
    /\ i = 1 \/ ~IsWordChar(t[i - 1])
    /\ j = Len(t) \/ ~IsWordChar(t[j + 1])

TokenSpans(t) == {<<i, j>> \in (1..Len(t)) \X (1..Len(t)) : IsToken(t, i, j)}

\* The number a string of digits denotes, most significant digit first.
RECURSIVE Decimal(_, _, _)
Decimal(t, i, j) ==
    IF j < i THEN 0 ELSE 10 * Decimal(t, i, j - 1) + DigitValue(t[j])

\* users is the value of the first standalone 3-to-6-digit token, and 1000
\* when the text has none.
UsersIsFirstToken ==
    \A r \in Sessions :
        HasProfile(r) =>
            LET t == Lowered(r)
                spans == TokenSpans(t)
            IN  IF spans = {} THEN analysis[r].users = 1000
                ELSE LET first == CHOOSE s \in spans : \A o \in spans : s[1] <= o[1]
                     IN  analysis[r].users = Decimal(t, first[1], first[2])

\* C7: users is a positive integer: the value of the first standalone
\* 3-to-6-digit token of the text (a token of zeros qualifies), and 1000 when
\* there is none.
C7_UsersPositiveFirstToken ==
    /\ UsersIsFirstToken
    /\ \A r \in Sessions : HasProfile(r) => analysis[r].users >= 1

\* The edge lines of a DOT text, as pairs, and its node lines, in order.
EdgeLines(d) ==
    LET ls == SelectSeq(d, LAMBDA l : l[1] = "edge")
    IN  [i \in 1..Len(ls) |-> <<ls[i][2], ls[i][3]>>]

NodeLines(d) ==
    LET ls == SelectSeq(d, LAMBDA l : l[1] = "node")
    IN  [i \in 1..Len(ls) |-> ls[i][2]]

\* C9: the edges are (Users, Fiori), (Fiori, S/4HANA), (S/4HANA, hosting),
\* then (m, S/4HANA) for each module m other than the anchors in modules
\* order, then (e, S/4HANA) for each external system in external order; no
\* edge joins a node to itself, and the nodes are the edge endpoints, each
\* listed once.
C9_EdgeList ==
    \A r \in Sessions :
        HasDot(r) =>
            LET a == analysis[r]
                edges == EdgeLines(dot[r])
                nodes == NodeLines(dot[r])
                others == SelectSeq(a.modules, LAMBDA m : m # "S/4HANA" /\ m # "Fiori")
                n == Len(others)
            IN  /\ Len(edges) = 3 + Cardinality(Range(a.modules) \ {"S/4HANA", "Fiori"}) + Len(a.external)
                /\ edges[1] = <<"Users", "Fiori">>
                /\ edges[2] = <<"Fiori", "S/4HANA">>
                /\ edges[3] = <<"S/4HANA", a.hosting>>
                /\ \A i \in 1..n : edges[3 + i] = <<others[i], "S/4HANA">>
                /\ \A i \in 1..Len(a.external) : edges[3 + n + i] = <<a.external[i], "S/4HANA">>
                /\ \A i \in 1..Len(edges) : edges[i][1] # edges[i][2]
                /\ Range(nodes) = {edges[i][1] : i \in 1..Len(edges)} \cup {edges[i][2] : i \in 1..Len(edges)}
                /\ Cardinality(Range(nodes)) = Len(nodes)

\* A graph has been built for a profile with a business module and an
\* external system.
C9_Witness ==
    \E r \in Sessions :
        /\ HasDot(r)
        /\ Range(analysis[r].modules) \ {"S/4HANA", "Fiori"} # {}
        /\ analysis[r].external # <<>>
        /\ Len(EdgeLines(dot[r])) >= 5

\* The failure modes, in catalog order.
CatalogModes ==
    <<"Integration failure", "Data migration error", "Security breach",
      "Performance degradation", "Availability / DR gap", "Master data quality issues">>

CatalogIndex(mode) == CHOOSE i \in 1..Len(CatalogModes) : CatalogModes[i] = mode

\* C3: the register has exactly 6 entries, one per catalog failure mode,
\* each entry's RPN at least the next one's, and entries of equal RPN in
\* catalog order.
C3_RegisterRanked ==
    \A r \in Sessions :
        HasFmea(r) =>
            LET f == fmea[r]
            IN  /\ Len(f) = 6
                /\ {f[i].FailureMode : i \in 1..Len(f)} = Range(CatalogModes)
                /\ \A i, j \in 1..Len(f) :
                       i < j =>
                           /\ f[i].FailureMode # f[j].FailureMode
                           /\ f[i].RPN >= f[j].RPN
                           /\ f[i].RPN = f[j].RPN =>
                                  CatalogIndex(f[i].FailureMode) < CatalogIndex(f[j].FailureMode)

\* A register whose ranking differs from the catalog order: the sort moved
\* Master data quality issues (240) ahead of Integration failure (225).
C3_Witness ==
    \E r \in Sessions :
        /\ HasFmea(r)
        /\ fmea[r][1].FailureMode = "Master data quality issues"
        /\ fmea[r][2].FailureMode = "Integration failure"

\* The entry of a register for a failure mode.
Entry(f, mode) == f[CHOOSE i \in 1..Len(f) : f[i].FailureMode = mode]

Scores(e) == <<e.Severity, e.Occurrence, e.Detection, e.RPN>>

\* C4: every entry has RPN = severity * occurrence * detection; occurrence is
\* the base value plus 1 exactly for Integration failure with two or more
\* externals, Performance degradation with users > 2000, and Availability /
\* DR gap with any hosting but On-Prem; the other three modes score the same
\* for every profile; and against the same profile with fewer than two
\* externals, two or more raise the Integration-failure occurrence and RPN
\* and leave the other five entries' scores alone.
C4_OccurrenceAdjustments ==
    \A r \in Sessions :
        HasFmea(r) =>
            LET a == analysis[r]
                f == fmea[r]
            IN  /\ \A i \in 1..Len(f) : f[i].RPN = f[i].Severity * f[i].Occurrence * f[i].Detection
                /\ Entry(f, "Integration failure").Severity = 9
                /\ Entry(f, "Integration failure").Detection = 5
                /\ Entry(f, "Integration failure").Occurrence =
                       5 + (IF Len(a.external) >= 2 THEN 1 ELSE 0)
                /\ Entry(f, "Performance degradation").Severity = 7
                /\ Entry(f, "Performance degradation").Detection = 5
                /\ Entry(f, "Performance degradation").Occurrence =
                       4 + (IF a.users > 2000 THEN 1 ELSE 0)
                /\ Entry(f, "Availability / DR gap").Severity = 9
                /\ Entry(f, "Availability / DR gap").Detection = 4
                /\ Entry(f, "Availability / DR gap").Occurrence =
                       3 + (IF a.hosting \in {"S/4HANA Cloud", "Azure Cloud", "AWS Cloud", "Hybrid"}
                            THEN 1 ELSE 0)
                /\ Scores(Entry(f, "Data migration error")) = <<8, 4, 6, 192>>
                /\ Scores(Entry(f, "Security breach")) = <<10, 3, 4, 120>>
                /\ Scores(Entry(f, "Master data quality issues")) = <<8, 5, 6, 240>>
                /\ Len(a.external) >= 2 =>
                       \A k \in 0..1 :
                           LET g == make_fmea([a EXCEPT !.external = SubSeq(a.external, 1, k)])
                           IN  /\ Entry(g, "Integration failure").Occurrence
                                      < Entry(f, "Integration failure").Occurrence
                               /\ Entry(g, "Integration failure").RPN
                                      < Entry(f, "Integration failure").RPN
                               /\ \A m \in Range(CatalogModes) \ {"Integration failure"} :
                                      Scores(Entry(g, m)) = Scores(Entry(f, m))

\* A register for two externals, exactly 2000 users and the default cloud
\* hosting: integration and availability raised, performance not.
C4_Witness ==
    \E r \in Sessions :
        /\ HasFmea(r)
        /\ Len(analysis[r].external) = 2
        /\ analysis[r].users = 2000
        /\ analysis[r].hosting = "S/4HANA Cloud"
        /\ Entry(fmea[r], "Integration failure").Occurrence = 6
        /\ Entry(fmea[r], "Performance degradation").Occurrence = 4
        /\ Entry(fmea[r], "Availability / DR gap").Occurrence = 4

\* The lines a narrative can hold for failure modes, and for compliance tags.
RiskBlocks ==
    {"- **Integration failure:**", "- **Data migration error:**", "- **Security breach:**",
     "- **Availability/DR:**", "- **Performance:**", "- **Master data quality:**"}

ComplianceBlocks == {"- **GDPR:**", "- **HIPAA:**"}

\* C5: the narrative holds the GDPR block exactly when GDPR is in compliance
\* and the HIPAA block exactly when HIPAA is, whatever the top four failure
\* modes are, and every compliance block comes after every risk block.
C5_ComplianceBlocks ==
    \A r \in Sessions :
        HasNarrative(r) =>
            LET n == narrative[r]
                c == analysis[r].compliance
            IN  /\ ("- **GDPR:**" \in Range(n)) <=> (<<"G", "D", "P", "R">> \in Range(c))
                /\ ("- **HIPAA:**" \in Range(n)) <=> (<<"H", "I", "P", "A", "A">> \in Range(c))
                /\ \A i, j \in 1..Len(n) :
                       (n[i] \in RiskBlocks /\ n[j] \in ComplianceBlocks) => i < j

\* A narrative for a profile with GDPR and HIPAA whose top four do not hold
\* the Security-breach mode.
C5_Witness ==
    \E r \in Sessions :
        /\ HasNarrative(r)
        /\ <<"G", "D", "P", "R">> \in Range(analysis[r].compliance)
        /\ <<"H", "I", "P", "A", "A">> \in Range(analysis[r].compliance)
        /\ \A i \in 1..4 : fmea[r][i].FailureMode # "Security breach"
        /\ "- **GDPR:**" \in Range(narrative[r])
        /\ "- **HIPAA:**" \in Range(narrative[r])

\* C6: the narrative of a register made by make_fmea holds exactly four risk
\* blocks, those of the four entries of highest RPN in rank order, none for
\* the two lowest-ranked entries, and never the fallback line.
C6_TopFourBlocks ==
    \A r \in Sessions :
        HasNarrative(r) =>
            LET n == narrative[r]
                f == fmea[r]
                risk == SelectSeq(n, LAMBDA l : l \in RiskBlocks)
            IN  /\ Len(risk) = 4
                /\ \A k \in 1..4 :
                       /\ Block(f[k].FailureMode) # <<>>
                       /\ n[k] = Block(f[k].FailureMode)[1]
                       /\ \A j \in 5..Len(f) : f[k].RPN >= f[j].RPN
                /\ \A j \in 5..Len(f) : Block(f[j].FailureMode)[1] \notin Range(n)
                /\ Fallback \notin Range(n)

\* A narrative has been composed from a six-entry register.
C6_Witness ==
    \E r \in Sessions :
        /\ HasNarrative(r)
        /\ Len(fmea[r]) = 6
        /\ Len(narrative[r]) >= 4
        /\ narrative[r][4] \in RiskBlocks

\* C10: the first three entries are Integration failure, Master data quality
\* issues and Data migration error in some order, the fourth is Performance
\* degradation or Availability / DR gap, Security breach is never among the
\* first four, no two entries have the same RPN, and the narrative always
\* holds the Integration-failure block and never the Security-breach block.
C10_RankingShape ==
    \A r \in Sessions :
        /\ HasFmea(r) =>
               LET f == fmea[r]
               IN  /\ {f[i].FailureMode : i \in 1..3} =
                          {"Integration failure", "Master data quality issues", "Data migration error"}
                   /\ f[4].FailureMode \in {"Performance degradation", "Availability / DR gap"}
                   /\ \A i \in 1..4 : f[i].FailureMode # "Security breach"
                   /\ \A i, j \in 1..Len(f) : i # j => f[i].RPN # f[j].RPN
        /\ HasNarrative(r) =>
               /\ "- **Integration failure:**" \in Range(narrative[r])
               /\ "- **Security breach:**" \notin Range(narrative[r])

\* A narrative whose fourth block is the availability one (144 against 140).
C10_Witness ==
    \E r \in Sessions :
        /\ HasNarrative(r)
        /\ fmea[r][4].FailureMode = "Availability / DR gap"
        /\ fmea[r][5].FailureMode = "Performance degradation"
        /\ narrative[r][4] = "- **Availability/DR:**"

\* C8: with the steps of two sessions interleaved in any order, no step
\* changes the shared catalogs, and each session's profile, findings, graph,
\* register and narrative are what its own text gives when run alone, from
\* the step that binds them on (unbound before), whatever the other session
\* has done.
C8_SessionsIsolated ==
    /\ MODULE_KEYWORDS = ModuleKeywordsCatalog
    /\ EXT_SYSTEMS = ExtSystemsCatalog
    /\ AGENTS = AgentsCatalog
    /\ \A r \in Sessions :
           LET alone == extract(text[r])
           IN  /\ analysis[r] = IF HasProfile(r) THEN alone ELSE Unbound
               /\ findings[r] = IF pc[r] \in {"build_dot", "make_fmea", "mitigation", "done"}
                                THEN run_agents(alone) ELSE Unbound
               /\ dot[r] = IF HasDot(r) THEN build_dot(alone) ELSE Unbound
               /\ fmea[r] = IF HasFmea(r) THEN make_fmea(alone) ELSE Unbound
               /\ narrative[r] = IF HasNarrative(r)
                                 THEN mitigation_narrative(make_fmea(alone), alone)
                                 ELSE Unbound

\* Two sessions with different texts, one about to compose its narrative
\* while the other has only its profile and findings.
C8_Witness ==
    /\ pc[1] = "mitigation"
    /\ pc[2] = "build_dot"
    /\ analysis[1] # analysis[2]
    /\ fmea[1] # Unbound
    /\ findings[2] # Unbound
    /\ findings[2] # findings[1]

====
